---- MODULE Spec2Model ----
(***************************************************************************)
(* The training loop of train_recognition.py (distributed, end-to-end)     *)
(* and train_recognition_noncached.py (two-stage, frozen encoder): batch   *)
(* consumption, the fail-fast loss check, gradient accumulation, the       *)
(* periodic evaluation / checkpoint / log phase, and resuming.             *)
(*                                                                         *)
(* util/misc.py (MetricLogger, NativeScalerWithGradNormCount, load_model,  *)
(* save_on_master, is_main_process) is not among the source files; the     *)
(* operators that stand for it follow the specification's contracts and    *)
(* are marked so in MODEL_MAP.json.                                        *)
(***************************************************************************)
EXTENDS Integers, Sequences, FiniteSets, TLC

\* ------------------------------------------------------------------ bounds
MaxAccum == 3
MaxSave == 4
MaxBatches == 9
MaxAcc == 2
\* the bounds of the runs that are resumed (SpecResume)
MaxResumeAccum == 2
MaxResumeSave == 2
MaxResumeBatches == 4
MaxRestarts == 1
\* the bounds of the validation streams (SpecEval)
MaxValBatches == 2
MaxBatchSize == 2
MaxValue == 1
\* the bounds of the multi-process runs (SpecDist)
MaxProcs == 2
MaxDistSave == 2
MaxDistBatches == 3

\* The end-to-end scenario of the specification: 25 batches, accum_iter 5,
\* save_freq 10.
Scenario == [accum_iter |-> 5, save_freq |-> 10, max_batches |-> 25]

Scripts == {"cached", "noncached"}

Configs ==
    [accum_iter : 1..MaxAccum, save_freq : 1..MaxSave, max_batches : {MaxBatches}]
        \cup {Scenario}

DistConfigs ==
    [accum_iter : {1}, save_freq : 1..MaxDistSave, max_batches : {MaxDistBatches}]

ResumeConfigs ==
    [accum_iter : 1..MaxResumeAccum, save_freq : 1..MaxResumeSave,
     max_batches : {MaxResumeBatches}]

\* ------------------------------------------------------------------- state
VARIABLES
    script,          \* which of the two training scripts runs
    args,            \* args.accum_iter, args.save_freq (and the stream's cap)
    pc,              \* position of the process in main()
    exit_code,       \* -1 while running, else the process's exit status
    enum_count,      \* enumerate(train_loader)'s counter: batches consumed
    it,              \* the loop variable it
    loss_finite,     \* math.isfinite(loss_value) of the current batch
    grads,           \* batches whose gradients sit in the .grad buffers
    params,          \* model weights, as the number of optimizer steps applied
    encoder,         \* the two-stage script's encoder weights, as steps applied
    optimizer,       \* optimizer state, as its step count
    loss_scaler,     \* loss-scaler state, as the number of scaler updates
    mode,            \* "train" or "eval": the trainable model's mode
    metric_logger,   \* the iterations whose loss the training window holds
    test_stats,      \* what evaluate returned last
    best_eval_acc1,  \* best_eval_acc1
    save_dict,       \* the bundle handed to save_on_master
    tmp_file,        \* the temporary file of a checkpoint save
    ckpt_file,       \* the file at <output_dir>/<save_prefix>_checkpoint.pth
    log_file,        \* the lines of <save_prefix>_log.txt
    restarts,        \* process starts after the first
    resumed_from,    \* the checkpoint load_model restored, or NoFile
    ckpt_acc1,       \* history: the top-1 accuracy at which ckpt_file was saved
    resumed_acc1,    \* history: ckpt_acc1 of the checkpoint this process loaded
    updated_at,      \* history: iterations with an optimizer step (this process)
    eval_at,         \* history: iterations that entered the evaluation phase
    touched,         \* history: what has happened for the current batch
    best_before,     \* history: best_eval_acc1 when the evaluation phase began
    ckpt_before,     \* history: ckpt_file when the evaluation phase began
    log_before,      \* history: log_file when this process started
    max_seen,        \* history: the largest top-1 accuracy evaluate returned
    first_max_at,    \* history: the iteration at which max_seen was first returned
    \* one invocation of evaluate (SpecEval)
    val_loader,      \* the validation stream: the batches and what the model scores
    ev_pc,           \* position inside evaluate
    ev_pos,          \* validation batches consumed
    ev_mode,         \* the mode of the model handed to evaluate
    ev_meters,       \* evaluate's own MetricLogger: name -> [total, count]
    ev_result,       \* the dict evaluate returns: name -> global_avg
    \* the processes of a distributed run of train_recognition.py (SpecDist)
    world_size,      \* the number of processes
    rank_pc,         \* rank -> position in main()
    rank_it,         \* rank -> the loop variable it
    rank_meter,      \* rank -> evaluate's local acc1 meter [total, count]
    rank_stats,      \* rank -> test_stats['acc1'], the synchronized global_avg
    rank_best,       \* rank -> best_eval_acc1
    shared_ckpt,     \* the checkpoint file all processes name
    shared_log,      \* the log file all processes name
    file_writers     \* history: <<file, rank>> for every write made

loopVars == <<script, args, pc, exit_code, enum_count, it, loss_finite, grads,
          params, encoder, optimizer, loss_scaler, mode, metric_logger, test_stats,
          best_eval_acc1, save_dict, tmp_file, ckpt_file, log_file, restarts,
          resumed_from, ckpt_acc1, resumed_acc1, updated_at, eval_at, touched, best_before, ckpt_before,
          log_before, max_seen, first_max_at>>

evalVars == <<val_loader, ev_pc, ev_pos, ev_mode, ev_meters, ev_result>>

distVars == <<world_size, rank_pc, rank_it, rank_meter, rank_stats, rank_best,
              shared_ckpt, shared_log, file_writers>>

vars == <<loopVars, evalVars, distVars>>

cfgVars == <<script, args>>
fileVars == <<tmp_file, ckpt_file, log_file>>
trainVars == <<grads, params, encoder, optimizer, loss_scaler>>
histVars == <<updated_at, eval_at, best_before, ckpt_before, log_before>>
maxVars == <<max_seen, first_max_at>>
lifeVars == <<restarts, resumed_from>>
saveVars == <<ckpt_acc1, resumed_acc1>>

NoFile == [state |-> "absent"]
PartialFile == [state |-> "partial"]
NoStats == [acc1 |-> 0, valid |-> FALSE]

\* ----------------------------------------------------- the loop's conditions

\* update_grad=(it + 1) % args.accum_iter == 0, and the guard of zero_grad
UpdateGradOffByOne(i, a) == i % a = 0
UpdateGrad(i, a) == (i + 1) % a = 0

\* if it != 0 and it % args.save_freq == 0
EvalDueAtZero(i, s) == i % s = 0
EvalDue(i, s) == i # 0 /\ i % s = 0

\* if test_stats['acc1'] > best_eval_acc1
ImprovesOrTies(acc1, best) == acc1 >= best
Improves(acc1, best) == acc1 > best

\* best_eval_acc1 = 0.0 before the loop, on every start of the process: the
\* checkpoint bundle has no best score to restore
InitialBestRestored == ckpt_acc1
InitialBest == 0

\* the save_dict literal
SaveDict ==
    [state |-> "complete", model |-> params, optimizer |-> optimizer,
     args |-> args, iteration |-> it, scaler |-> loss_scaler]

\* --------------------------------------------------------------- the start
\* a meter of MetricLogger before its first update
EmptyMeter == [total |-> 0, count |-> 0]
NoMeters == [loss |-> EmptyMeter, acc1 |-> EmptyMeter, acc5 |-> EmptyMeter]

\* no invocation of evaluate is being followed
EvalIdle ==
    /\ val_loader = <<>>
    /\ ev_pc = "idle"
    /\ ev_pos = 0
    /\ ev_mode = "train"
    /\ ev_meters = NoMeters
    /\ ev_result = NoMeters

\* no distributed run is being followed
DistIdle ==
    /\ world_size = 0
    /\ rank_pc = <<>>
    /\ rank_it = <<>>
    /\ rank_meter = <<>>
    /\ rank_stats = <<>>
    /\ rank_best = <<>>
    /\ shared_ckpt = NoFile
    /\ shared_log = <<>>
    /\ file_writers = {}

LoopInit(configs) ==
    /\ script \in Scripts
    /\ args \in configs
    /\ pc = "loop"
    /\ exit_code = -1
    /\ enum_count = 0
    /\ it = 0
    /\ loss_finite = TRUE
    /\ grads = 0
    /\ params = 0
    /\ encoder = 0
    /\ optimizer = 0
    /\ loss_scaler = 0
    /\ mode = "train"
    /\ metric_logger = {}
    /\ test_stats = NoStats
    /\ ckpt_acc1 = 0
    /\ resumed_acc1 = 0
    /\ best_eval_acc1 = InitialBest
    /\ save_dict = NoFile
    /\ tmp_file = NoFile
    /\ ckpt_file = NoFile
    /\ log_file = <<>>
    /\ restarts = 0
    /\ resumed_from = NoFile
    /\ updated_at = {}
    /\ eval_at = {}
    /\ touched = {}
    /\ best_before = 0
    /\ ckpt_before = NoFile
    /\ log_before = <<>>
    /\ max_seen = 0
    /\ first_max_at = 0

\* ------------------------------------------------------------ the loop body

\* enumerate(train_loader): the index bound to it for the batch after count
\* batches, whatever it held before
EnumerateFromOne(count) == count + 1
EnumerateIndex(count) == count

\* for it, (samples, targets) in enumerate(train_loader): one more batch, its
\* forward pass and loss (finite or not)
NextBatch ==
    /\ pc = "loop"
    /\ enum_count < args.max_batches
    /\ it' = EnumerateIndex(enum_count)
    /\ enum_count' = enum_count + 1
    /\ loss_finite' \in BOOLEAN
    /\ touched' = {}
    /\ pc' = "check"
    /\ UNCHANGED <<cfgVars, evalVars, distVars, fileVars, trainVars, histVars, maxVars, lifeVars, saveVars, exit_code,
                   mode, metric_logger, test_stats, best_eval_acc1, save_dict>>

\* the train stream is exhausted: the loop ends and main returns
StreamEnd ==
    /\ pc = "loop"
    /\ pc' = "done"
    /\ exit_code' = 0
    /\ UNCHANGED <<cfgVars, evalVars, distVars, fileVars, trainVars, histVars, maxVars, lifeVars, saveVars, enum_count,
                   it, loss_finite, mode, metric_logger, test_stats,
                   best_eval_acc1, save_dict, touched>>

\* (a loop that only reports a non-finite loss and goes on)
CheckFiniteContinue ==
    /\ pc = "check"
    /\ pc' = "scale"
    /\ UNCHANGED <<cfgVars, evalVars, distVars, fileVars, trainVars, histVars, maxVars, lifeVars, saveVars, exit_code,
                   enum_count, it, loss_finite, mode, metric_logger, test_stats,
                   best_eval_acc1, save_dict, touched>>

\* if not math.isfinite(loss_value): print(...); sys.exit(1)
CheckFinite ==
    /\ pc = "check"
    /\ \/ /\ ~loss_finite
          /\ pc' = "exited"
          /\ exit_code' = 1
       \/ /\ loss_finite
          /\ pc' = "scale"
          /\ UNCHANGED exit_code
    /\ UNCHANGED <<cfgVars, evalVars, distVars, fileVars, trainVars, histVars, maxVars, lifeVars, saveVars, enum_count,
                   it, loss_finite, mode, metric_logger, test_stats,
                   best_eval_acc1, save_dict, touched>>

\* loss_scaler(loss, optimizer, parameters=..., update_grad=...): backward into
\* the gradient buffers, and on update_grad the optimizer step and the scaler
\* update
OptimizedParamsWithEncoder == {"model", "encoder"}

\* the modules whose parameters the optimizer was built from:
\* param_groups = misc.add_weight_decay(model, ...); AdamW(param_groups, ...)
OptimizedParams == {"model"}

\* one optimizer step on a module's weights, if the optimizer holds them
StepOn(module, weights) ==
    IF module \in OptimizedParams THEN weights + 1 ELSE weights

LossScalerCall(update_grad) ==
    /\ grads' = grads + 1
    /\ IF update_grad
       THEN /\ params' = StepOn("model", params)
            /\ encoder' = StepOn("encoder", encoder)
            /\ optimizer' = optimizer + 1
            /\ loss_scaler' = loss_scaler + 1
            /\ updated_at' = updated_at \cup {it}
            /\ touched' = touched \cup {"backward", "step"}
       ELSE /\ UNCHANGED <<params, encoder, optimizer, loss_scaler, updated_at>>
            /\ touched' = touched \cup {"backward"}

\* loss = loss / args.accum_iter; loss_scaler(...)
ScaleAndStep ==
    /\ pc = "scale"
    /\ LossScalerCall(UpdateGrad(it, args.accum_iter))
    /\ pc' = "zero"
    /\ UNCHANGED <<cfgVars, evalVars, distVars, fileVars, lifeVars, saveVars, exit_code, enum_count, it,
                   loss_finite, mode, metric_logger, test_stats, best_eval_acc1,
                   save_dict, eval_at, best_before, ckpt_before, log_before,
                   maxVars>>

\* if (it + 1) % args.accum_iter == 0: optimizer.zero_grad()
ZeroGrad ==
    /\ pc = "zero"
    /\ IF UpdateGrad(it, args.accum_iter)
       THEN /\ grads' = 0
            /\ touched' = touched \cup {"zero_grad"}
       ELSE UNCHANGED <<grads, touched>>
    /\ pc' = "metric"
    /\ UNCHANGED <<cfgVars, evalVars, distVars, fileVars, histVars, maxVars, lifeVars, saveVars, exit_code, enum_count,
                   it, loss_finite, params, encoder, optimizer, loss_scaler, mode,
                   metric_logger, test_stats, best_eval_acc1, save_dict>>

\* metric_logger.update(loss=loss_value)
MetricUpdate ==
    /\ pc = "metric"
    /\ metric_logger' = metric_logger \cup {it}
    /\ touched' = touched \cup {"metric"}
    /\ pc' = "evalcheck"
    /\ UNCHANGED <<cfgVars, evalVars, distVars, fileVars, trainVars, histVars, maxVars, lifeVars, saveVars, exit_code,
                   enum_count, it, loss_finite, mode, test_stats,
                   best_eval_acc1, save_dict>>

\* if it != 0 and it % args.save_freq == 0:
EvalCheck ==
    /\ pc = "evalcheck"
    /\ IF EvalDue(it, args.save_freq)
       THEN /\ pc' = "evaluate"
            /\ eval_at' = eval_at \cup {it}
            /\ best_before' = best_eval_acc1
            /\ ckpt_before' = ckpt_file
            /\ touched' = touched \cup {"eval"}
       ELSE /\ pc' = "endbody"
            /\ UNCHANGED <<eval_at, best_before, ckpt_before, touched>>
    /\ UNCHANGED <<cfgVars, evalVars, distVars, fileVars, trainVars, lifeVars, saveVars, exit_code, enum_count,
                   it, loss_finite, mode, metric_logger, test_stats,
                   best_eval_acc1, save_dict, updated_at, log_before, maxVars>>


\* evaluate(): model.eval() on entry, and no model.train() before the return
ModeAfterEvaluateRestored == "train"
ModeAfterEvaluate == "eval"

\* test_stats = evaluate(val_loader, model_without_ddp, device): the aggregated
\* top-1 accuracy is whatever the model scores on the validation stream
Evaluate ==
    /\ pc = "evaluate"
    /\ \E acc1 \in 0..MaxAcc :
        /\ test_stats' = [acc1 |-> acc1, valid |-> TRUE]
        /\ max_seen' = IF acc1 > max_seen THEN acc1 ELSE max_seen
        /\ first_max_at' = IF acc1 > max_seen THEN it ELSE first_max_at
    /\ mode' = ModeAfterEvaluate
    /\ pc' = "compare"
    /\ UNCHANGED <<cfgVars, evalVars, distVars, fileVars, trainVars, histVars, lifeVars, saveVars, exit_code,
                   enum_count, it, loss_finite, metric_logger, best_eval_acc1,
                   save_dict, touched>>

\* if test_stats['acc1'] > best_eval_acc1:
CompareBest ==
    /\ pc = "compare"
    /\ IF Improves(test_stats.acc1, best_eval_acc1)
       THEN pc' = "save"
       ELSE pc' = "log"
    /\ UNCHANGED <<cfgVars, evalVars, distVars, fileVars, trainVars, histVars, maxVars, lifeVars, saveVars, exit_code,
                   enum_count, it, loss_finite, mode, metric_logger, test_stats,
                   best_eval_acc1, save_dict, touched>>

\* save_dict = {...}; misc.save_on_master(save_dict, <checkpoint path>) is called
SaveBegin ==
    /\ pc = "save"
    /\ save_dict' = SaveDict
    /\ pc' = "save_open"
    /\ UNCHANGED <<cfgVars, evalVars, distVars, fileVars, trainVars, histVars, maxVars, lifeVars, saveVars, exit_code,
                   enum_count, it, loss_finite, mode, metric_logger, test_stats,
                   best_eval_acc1, touched>>

\* misc.is_main_process(): rank zero (a process that is not distributed is
\* rank zero)
IsMainProcess(rank) == rank = 0

\* save_on_master: where the bytes go while the bundle is being written
WriteTargetCanonical == "canonical"
WriteTarget == "tmp"

\* save_on_master, first bytes: the file being written exists and is incomplete
SaveOpen ==
    /\ pc = "save_open"
    /\ IF WriteTarget = "tmp"
       THEN tmp_file' = PartialFile /\ UNCHANGED ckpt_file
       ELSE ckpt_file' = PartialFile /\ UNCHANGED tmp_file
    /\ pc' = "save_write"
    /\ UNCHANGED <<cfgVars, evalVars, distVars, log_file, trainVars, histVars, maxVars, lifeVars, saveVars, exit_code,
                   enum_count, it, loss_finite, mode, metric_logger, test_stats,
                   best_eval_acc1, save_dict, touched>>

\* save_on_master, last bytes: the file being written holds the whole bundle
SaveWrite ==
    /\ pc = "save_write"
    /\ IF WriteTarget = "tmp"
       THEN tmp_file' = save_dict /\ UNCHANGED ckpt_file
       ELSE ckpt_file' = save_dict /\ UNCHANGED tmp_file
    /\ pc' = "save_finalize"
    /\ UNCHANGED <<cfgVars, evalVars, distVars, log_file, trainVars, histVars, maxVars, lifeVars, saveVars, exit_code,
                   enum_count, it, loss_finite, mode, metric_logger, test_stats,
                   best_eval_acc1, save_dict, touched>>

\* save_on_master, finalize: the temporary file replaces the canonical one
SaveFinalize ==
    /\ pc = "save_finalize"
    /\ IF WriteTarget = "tmp"
       THEN ckpt_file' = tmp_file /\ tmp_file' = NoFile
       ELSE UNCHANGED <<ckpt_file, tmp_file>>
    /\ ckpt_acc1' = test_stats.acc1
    /\ touched' = touched \cup {"checkpoint"}
    /\ pc' = "setbest"
    /\ UNCHANGED <<cfgVars, evalVars, distVars, log_file, trainVars, histVars, maxVars, lifeVars, resumed_acc1, exit_code,
                   enum_count, it, loss_finite, mode, metric_logger, test_stats,
                   best_eval_acc1, save_dict>>

\* the process dies part-way through a save
Crash ==
    /\ pc \in {"save_write", "save_finalize"}
    /\ pc' = "crashed"
    /\ exit_code' = 137
    /\ UNCHANGED <<cfgVars, evalVars, distVars, fileVars, trainVars, histVars, maxVars, lifeVars, saveVars, enum_count,
                   it, loss_finite, mode, metric_logger, test_stats,
                   best_eval_acc1, save_dict, touched>>

\* best_eval_acc1 = test_stats['acc1']
SetBest ==
    /\ pc = "setbest"
    /\ best_eval_acc1' = test_stats.acc1
    /\ pc' = "log"
    /\ UNCHANGED <<cfgVars, evalVars, distVars, fileVars, trainVars, histVars, maxVars, lifeVars, saveVars, exit_code,
                   enum_count, it, loss_finite, mode, metric_logger, test_stats,
                   save_dict, touched>>

\* log_stats = {train_<k>: global_avg of the window, 'eval_loss', 'iteration': it}
LogStats == [iteration |-> it, window |-> metric_logger]

\* with (...).open("a") as f: f.write(json.dumps(log_stats) + "\n")
OverwriteLine(f, line) == <<line>>
AppendLine(f, line) == Append(f, line)

\* metric_logger.synchronize_between_processes(); log_stats = ...;
\* if misc.is_main_process(): f.write(json.dumps(log_stats) + "\n")
WriteLog ==
    /\ pc = "log"
    /\ IF IsMainProcess(0)
       THEN /\ log_file' = AppendLine(log_file, LogStats)
            /\ touched' = touched \cup {"log"}
       ELSE UNCHANGED <<log_file, touched>>
    /\ pc' = "reset"
    /\ UNCHANGED <<cfgVars, evalVars, distVars, tmp_file, ckpt_file, trainVars, histVars, maxVars, lifeVars, saveVars,
                   exit_code, enum_count, it, loss_finite, mode, metric_logger,
                   test_stats, best_eval_acc1, save_dict>>

\* (a phase that keeps the old MetricLogger)
ResetLoggerSkipped ==
    /\ pc = "reset"
    /\ pc' = "trainmode"
    /\ UNCHANGED <<cfgVars, evalVars, distVars, fileVars, trainVars, histVars, maxVars,
                   lifeVars, saveVars, exit_code, enum_count, it, loss_finite, mode,
                   metric_logger, test_stats, best_eval_acc1, save_dict, touched>>

\* metric_logger = misc.MetricLogger(delimiter="  ")
ResetLogger ==
    /\ pc = "reset"
    /\ metric_logger' = {}
    /\ pc' = "trainmode"
    /\ UNCHANGED <<cfgVars, evalVars, distVars, fileVars, trainVars, histVars, maxVars, lifeVars, saveVars, exit_code,
                   enum_count, it, loss_finite, mode, test_stats,
                   best_eval_acc1, save_dict, touched>>

\* model.train() at the end of the evaluation phase
ModeAfterPhaseUnrestored == mode
ModeAfterPhase == "train"

TrainMode ==
    /\ pc = "trainmode"
    /\ mode' = ModeAfterPhase
    /\ pc' = "endbody"
    /\ UNCHANGED <<cfgVars, evalVars, distVars, fileVars, trainVars, histVars, maxVars, lifeVars, saveVars, exit_code,
                   enum_count, it, loss_finite, metric_logger, test_stats,
                   best_eval_acc1, save_dict, touched>>

\* the end of the loop body; train_recognition_noncached.py ends it by it += 1
EndBody ==
    /\ pc = "endbody"
    /\ it' = IF script = "noncached" THEN it + 1 ELSE it
    /\ pc' = "loop"
    /\ UNCHANGED <<cfgVars, evalVars, distVars, fileVars, trainVars, histVars, maxVars, lifeVars, saveVars, exit_code,
                   enum_count, loss_finite, mode, metric_logger, test_stats,
                   best_eval_acc1, save_dict, touched>>

\* ------------------------------------------------------------------ resume

\* the iteration the loop starts from in a new process: enumerate(train_loader)
\* counts from zero (and the two-stage script sets it = 0), whatever was loaded
StartIterationFromCheckpoint(ckpt) == ckpt.iteration + 1
StartIteration(ckpt) == 0

\* misc.load_model: the model weights, optimizer state and scaler state of the
\* checkpoint, exactly as saved
LoadModel(ckpt) ==
    [model |-> ckpt.model, optimizer |-> ckpt.optimizer, scaler |-> ckpt.scaler]

\* a new process started with the checkpoint as args.resume / args.model_ckpt:
\* misc.load_model(...); then model.train(), a fresh MetricLogger,
\* optimizer.zero_grad(), best_eval_acc1 = 0.0
Resume ==
    /\ pc \in {"done", "exited", "crashed"}
    /\ restarts < MaxRestarts
    /\ ckpt_file.state = "complete"
    /\ restarts' = restarts + 1
    /\ resumed_from' = ckpt_file
    /\ resumed_acc1' = ckpt_acc1
    /\ ckpt_acc1' = ckpt_acc1
    /\ params' = LoadModel(ckpt_file).model
    /\ encoder' = 0
    /\ optimizer' = LoadModel(ckpt_file).optimizer
    /\ loss_scaler' = LoadModel(ckpt_file).scaler
    /\ mode' = "train"
    /\ metric_logger' = {}
    /\ grads' = 0
    /\ best_eval_acc1' = InitialBest
    /\ enum_count' = StartIteration(ckpt_file)
    /\ it' = StartIteration(ckpt_file)
    /\ loss_finite' = TRUE
    /\ test_stats' = NoStats
    /\ save_dict' = NoFile
    /\ exit_code' = -1
    /\ updated_at' = {}
    /\ eval_at' = {}
    /\ touched' = {}
    /\ best_before' = 0
    /\ ckpt_before' = ckpt_file
    /\ log_before' = log_file
    /\ max_seen' = 0
    /\ first_max_at' = 0
    /\ pc' = "loop"
    /\ UNCHANGED <<cfgVars, evalVars, distVars, fileVars>>

Next ==
    \/ NextBatch
    \/ StreamEnd
    \/ CheckFinite
    \/ ScaleAndStep
    \/ ZeroGrad
    \/ MetricUpdate
    \/ EvalCheck
    \/ Evaluate
    \/ CompareBest
    \/ SaveBegin
    \/ SaveOpen
    \/ SaveWrite
    \/ SaveFinalize
    \/ SetBest
    \/ WriteLog
    \/ ResetLogger
    \/ TrainMode
    \/ EndBody

InitWith(configs) == LoopInit(configs) /\ EvalIdle /\ DistIdle

Init == InitWith(Configs)

\* one process, from its start to its exit
Spec == Init /\ [][Next]_vars

InitResume == InitWith(ResumeConfigs)

NextResume ==
    \/ Next
    \/ Crash
    \/ Resume

\* processes that may die during a save and be started again from the checkpoint
SpecResume == InitResume /\ [][NextResume]_vars


\* ---------------------------------------------------------------- evaluate

\* what one validation batch is and what the model scores on it: its size, its
\* loss, its top-1 and top-5 accuracy (top-5 is at least top-1)
BatchValues ==
    {b \in [bsize : 1..MaxBatchSize, loss : 0..MaxValue, acc1 : 0..MaxValue,
            acc5 : 0..MaxValue] : b.acc1 <= b.acc5}

\* a finite validation stream: batches of the loader's batch size, the last one
\* possibly smaller (drop_last=False)
ValStreams ==
    UNION {{s \in [1..n -> BatchValues] :
              \E size \in 1..MaxBatchSize :
                  /\ \A i \in 1..(n - 1) : s[i].bsize = size
                  /\ s[n].bsize <= size} : n \in 1..MaxValBatches}

\* SmoothedValue.update(value, n): count += n; total += value * n
MeterUpdate(m, value, n) == [total |-> m.total + value * n, count |-> m.count + n]

\* metric_logger.update(loss=loss.item()): no n is passed, so the weight is 1
LossWeightBatchSize(b) == b.bsize
LossWeight(b) == 1

\* metric_logger.meters['acc1'].update(acc1.item(), n=batch_size), and acc5
AccWeightOne(b) == 1
AccWeight(b) == b.bsize

\* criterion = ...; metric_logger = misc.MetricLogger(...); model.eval()
EvalEnter ==
    /\ ev_pc = "enter"
    /\ ev_meters' = NoMeters
    /\ ev_mode' = "eval"
    /\ ev_pos' = 0
    /\ ev_pc' = "batch"
    /\ UNCHANGED <<loopVars, distVars, val_loader, ev_result>>

\* the body of for _, (samples, targets) in enumerate(data_loader)
EvalBatch ==
    /\ ev_pc = "batch"
    /\ ev_pos < Len(val_loader)
    /\ LET b == val_loader[ev_pos + 1] IN
        ev_meters' =
            [loss |-> MeterUpdate(ev_meters.loss, b.loss, LossWeight(b)),
             acc1 |-> MeterUpdate(ev_meters.acc1, b.acc1, AccWeight(b)),
             acc5 |-> MeterUpdate(ev_meters.acc5, b.acc5, AccWeight(b))]
    /\ ev_pos' = ev_pos + 1
    /\ UNCHANGED <<loopVars, distVars, val_loader, ev_pc, ev_mode, ev_result>>

\* (a loop that leaves the stream after its first batch)
EvalSyncEarly ==
    /\ ev_pc = "batch"
    /\ ev_pos >= 1
    /\ ev_pc' = "return"
    /\ UNCHANGED <<loopVars, distVars, val_loader, ev_pos, ev_mode, ev_meters,
                   ev_result>>

\* the stream is exhausted; metric_logger.synchronize_between_processes(): the
\* totals and counts summed over the processes, here the only one
EvalSync ==
    /\ ev_pc = "batch"
    /\ ev_pos = Len(val_loader)
    /\ ev_pc' = "return"
    /\ UNCHANGED <<loopVars, distVars, val_loader, ev_pos, ev_mode, ev_meters, ev_result>>

\* return {k: meter.global_avg for k, meter in metric_logger.meters.items()}:
\* global_avg is total / count, kept as the pair
EvalReturn ==
    /\ ev_pc = "return"
    /\ ev_result' = ev_meters
    /\ ev_pc' = "returned"
    /\ UNCHANGED <<loopVars, distVars, val_loader, ev_pos, ev_mode, ev_meters>>

\* evaluate is called on a validation stream, the model in either mode
InitEval ==
    /\ LoopInit({Scenario})
    /\ DistIdle
    /\ val_loader \in ValStreams
    /\ ev_pc = "enter"
    /\ ev_pos = 0
    /\ ev_mode \in {"train", "eval"}
    /\ ev_meters = NoMeters
    /\ ev_result = NoMeters

NextEval ==
    \/ EvalEnter
    \/ EvalBatch
    \/ EvalSync
    \/ EvalReturn

\* one invocation of evaluate
SpecEval == InitEval /\ [][NextEval]_vars

\* ------------------------------------------------- the distributed run

Ranks == 0..(world_size - 1)

\* best_eval_acc1 = 0.0, as a total / count pair like global_avg
ZeroAvg == [total |-> 0, count |-> 1]

\* if test_stats['acc1'] > best_eval_acc1, on total / count pairs
ImprovesAvg(stats, best) == stats.total * best.count > best.total * stats.count

\* if misc.is_main_process(): the guard of the log write
LogGuardAll(r) == TRUE
LogGuard(r) == IsMainProcess(r)

\* misc.save_on_master: only the main process writes
SaveGuard(r) == IsMainProcess(r)

\* the forward pass and loss of batch it on rank r; a non-finite loss is
\* sys.exit(1), a finite one goes on to the backward pass, whose gradient
\* all-reduce (the DDP wrapper) waits for every process
DForward(r) ==
    /\ rank_pc[r] = "train"
    /\ rank_it[r] < args.max_batches
    /\ \/ rank_pc' = [rank_pc EXCEPT ![r] = "exited"]
       \/ rank_pc' = [rank_pc EXCEPT ![r] = "backward_wait"]
    /\ UNCHANGED <<loopVars, evalVars, world_size, rank_it, rank_meter,
                   rank_stats, rank_best, shared_ckpt, shared_log, file_writers>>

\* every process has reached the all-reduce of this backward pass: loss_scaler
\* returns, metric_logger.update runs, and the evaluation test of line 151
DBackwardDone ==
    /\ \A r \in Ranks : rank_pc[r] = "backward_wait"
    /\ rank_pc' = [r \in Ranks |->
                      IF EvalDue(rank_it[r], args.save_freq)
                      THEN "evaluate" ELSE "train"]
    /\ rank_it' = [r \in Ranks |->
                      IF EvalDue(rank_it[r], args.save_freq)
                      THEN rank_it[r] ELSE rank_it[r] + 1]
    /\ UNCHANGED <<loopVars, evalVars, world_size, rank_meter, rank_stats,
                   rank_best, shared_ckpt, shared_log, file_writers>>

\* (an evaluation that only the main process runs)
DEvaluateMainOnly(r) ==
    /\ rank_pc[r] = "evaluate"
    /\ IF IsMainProcess(r)
       THEN \E acc1 \in 0..MaxAcc :
               rank_meter' = [rank_meter EXCEPT ![r] = [total |-> acc1, count |-> 1]]
       ELSE rank_meter' = [rank_meter EXCEPT ![r] = EmptyMeter]
    /\ rank_pc' = [rank_pc EXCEPT ![r] = "eval_wait"]
    /\ UNCHANGED <<loopVars, evalVars, world_size, rank_it, rank_stats,
                   rank_best, shared_ckpt, shared_log, file_writers>>

\* evaluate on rank r, up to its synchronize_between_processes: the local pass
\* over the validation stream fills the rank's own acc1 meter
DEvaluate(r) ==
    /\ rank_pc[r] = "evaluate"
    /\ \E acc1 \in 0..MaxAcc :
        rank_meter' = [rank_meter EXCEPT ![r] = [total |-> acc1, count |-> 1]]
    /\ rank_pc' = [rank_pc EXCEPT ![r] = "eval_wait"]
    /\ UNCHANGED <<loopVars, evalVars, world_size, rank_it, rank_stats,
                   rank_best, shared_ckpt, shared_log, file_writers>>

RECURSIVE SumMeters(_, _, _)
\* the sum of a meter's field over ranks 0..n-1
SumMeters(m, n, name) ==
    IF n = 0 THEN 0 ELSE SumMeters(m, n - 1, name) + m[n - 1][name]

\* (an evaluate that returns each process's own averages, unsynchronized)
DEvalNoSync ==
    /\ \A r \in Ranks : rank_pc[r] = "eval_wait"
    /\ rank_stats' = rank_meter
    /\ rank_pc' = [r \in Ranks |-> "compare"]
    /\ UNCHANGED <<loopVars, evalVars, world_size, rank_it, rank_meter,
                   rank_best, shared_ckpt, shared_log, file_writers>>

\* every process has reached evaluate's synchronize_between_processes: each
\* gets the totals and counts summed over all, and evaluate returns global_avg
DEvalSyncDone ==
    /\ \A r \in Ranks : rank_pc[r] = "eval_wait"
    /\ rank_stats' = [r \in Ranks |->
                        [total |-> SumMeters(rank_meter, world_size, "total"),
                         count |-> SumMeters(rank_meter, world_size, "count")]]
    /\ rank_pc' = [r \in Ranks |-> "compare"]
    /\ UNCHANGED <<loopVars, evalVars, world_size, rank_it, rank_meter,
                   rank_best, shared_ckpt, shared_log, file_writers>>

\* if test_stats['acc1'] > best_eval_acc1: ... else straight to line 171
DCompare(r) ==
    /\ rank_pc[r] = "compare"
    /\ rank_pc' = [rank_pc EXCEPT ![r] =
                      IF ImprovesAvg(rank_stats[r], rank_best[r])
                      THEN "save" ELSE "log_wait"]
    /\ UNCHANGED <<loopVars, evalVars, world_size, rank_it, rank_meter,
                   rank_stats, rank_best, shared_ckpt, shared_log, file_writers>>

\* misc.save_on_master(save_dict, path); best_eval_acc1 = test_stats['acc1'];
\* then the process reaches metric_logger.synchronize_between_processes()
DSave(r) ==
    /\ rank_pc[r] = "save"
    /\ IF SaveGuard(r)
       THEN /\ shared_ckpt' = [state |-> "complete", iteration |-> rank_it[r],
                               writer |-> r]
            /\ file_writers' = file_writers \cup {<<"checkpoint", r>>}
       ELSE UNCHANGED <<shared_ckpt, file_writers>>
    /\ rank_best' = [rank_best EXCEPT ![r] = rank_stats[r]]
    /\ rank_pc' = [rank_pc EXCEPT ![r] = "log_wait"]
    /\ UNCHANGED <<loopVars, evalVars, world_size, rank_it, rank_meter,
                   rank_stats, shared_log>>

\* every process has reached the synchronize_between_processes of line 171
DLogSyncDone ==
    /\ \A r \in Ranks : rank_pc[r] = "log_wait"
    /\ rank_pc' = [r \in Ranks |-> "log"]
    /\ UNCHANGED <<loopVars, evalVars, world_size, rank_it, rank_meter,
                   rank_stats, rank_best, shared_ckpt, shared_log, file_writers>>

\* if misc.is_main_process(): append the line; then the fresh MetricLogger,
\* model.train(), and on to the next batch
DWriteLog(r) ==
    /\ rank_pc[r] = "log"
    /\ IF LogGuard(r)
       THEN /\ shared_log' = AppendLine(shared_log,
                                        [iteration |-> rank_it[r], writer |-> r])
            /\ file_writers' = file_writers \cup {<<"log", r>>}
       ELSE UNCHANGED <<shared_log, file_writers>>
    /\ rank_it' = [rank_it EXCEPT ![r] = rank_it[r] + 1]
    /\ rank_pc' = [rank_pc EXCEPT ![r] = "train"]
    /\ UNCHANGED <<loopVars, evalVars, world_size, rank_meter, rank_stats,
                   rank_best, shared_ckpt>>

\* misc.init_distributed_mode(args): world_size processes, each at the top of
\* the loop with best_eval_acc1 = 0.0
InitDist ==
    /\ LoopInit(DistConfigs)
    /\ script = "cached"
    /\ EvalIdle
    /\ world_size \in 1..MaxProcs
    /\ rank_pc = [r \in Ranks |-> "train"]
    /\ rank_it = [r \in Ranks |-> 0]
    /\ rank_meter = [r \in Ranks |-> EmptyMeter]
    /\ rank_stats = [r \in Ranks |-> ZeroAvg]
    /\ rank_best = [r \in Ranks |-> ZeroAvg]
    /\ shared_ckpt = NoFile
    /\ shared_log = <<>>
    /\ file_writers = {}

NextDist ==
    \/ \E r \in Ranks : DForward(r)
    \/ DBackwardDone
    \/ \E r \in Ranks : DEvaluate(r)
    \/ DEvalSyncDone
    \/ \E r \in Ranks : DCompare(r)
    \/ \E r \in Ranks : DSave(r)
    \/ DLogSyncDone
    \/ \E r \in Ranks : DWriteLog(r)

\* the processes of one distributed run, interleaved
SpecDist == InitDist /\ [][NextDist]_vars

\* ------------------------------------------------------------ the claims

\* the index of the batch being processed (the last one consumed)
Cur == enum_count - 1

\* the batches of this process that are past the loss_scaler call
Stepped == {i \in 0..Cur : i < Cur \/ pc \notin {"check", "scale", "exited"}}

\* the batches of this process that are past the evaluation test of line 151
Tested ==
    {i \in 0..Cur :
        i < Cur \/ pc \notin {"check", "scale", "zero", "metric", "evalcheck", "exited"}}

\* the positions inside the evaluation / checkpoint phase, after evaluate returned
AfterEvaluate ==
    {"compare", "save", "save_open", "save_write", "save_finalize", "setbest",
     "log", "reset", "trainmode"}

\* C1: an optimizer step happens on batch it iff (it + 1) % accum_iter = 0, so
\* each window of accum_iter batches has one step, on its last batch, and the
\* gradient buffers hold nothing once the step's zero_grad has run: after each
\* batch they hold exactly the batches since the last boundary.
C1_UpdateOnBoundaryOnly ==
    /\ updated_at = {i \in Stepped : (i + 1) % args.accum_iter = 0}
    /\ pc \in {"metric", "evalcheck", "endbody", "loop", "done"} \cup AfterEvaluate
          \cup {"evaluate"}
        => grads = enum_count % args.accum_iter
    /\ (pc = "metric" /\ Cur \in updated_at) => grads = 0

C1_Witness ==
    /\ pc = "metric"
    /\ args.accum_iter = 3
    /\ it = 5
    /\ updated_at = {2, 5}
    /\ grads = 0

\* C2: the evaluation / checkpoint phase is entered at iteration it iff
\* it % save_freq = 0 and it # 0.
C2_EvalCadence ==
    /\ eval_at = {i \in Tested : i # 0 /\ i % args.save_freq = 0}
    /\ pc \in AfterEvaluate \cup {"evaluate"}
        => (Cur # 0 /\ Cur % args.save_freq = 0 /\ Cur \in eval_at)
    /\ 0 \notin eval_at

C2_Witness ==
    /\ pc = "evaluate"
    /\ args.save_freq = 3
    /\ it = 6
    /\ eval_at = {3, 6}

\* C3: at an evaluation event the checkpoint is written iff the new top-1
\* accuracy is strictly above the best so far; then the best becomes the new
\* accuracy, and otherwise the best and the checkpoint file stay as they were.
C3_SaveIffStrictlyBetter ==
    pc = "log" =>
        IF test_stats.acc1 > best_before
        THEN /\ "checkpoint" \in touched
             /\ ckpt_file.state = "complete"
             /\ ckpt_file.iteration = Cur
             /\ best_eval_acc1 = test_stats.acc1
        ELSE /\ "checkpoint" \notin touched
             /\ ckpt_file = ckpt_before
             /\ best_eval_acc1 = best_before

\* an evaluation that ties the best, after an earlier one was saved
C3_Witness ==
    /\ pc = "log"
    /\ test_stats.acc1 = best_before
    /\ best_before > 0
    /\ ckpt_file.state = "complete"
    /\ ckpt_file.iteration < Cur
    /\ "checkpoint" \notin touched

\* C4: a non-finite loss ends the process at once with exit status 1: nothing
\* has happened for that batch (no backward, step, zero_grad, metric update,
\* evaluation, checkpoint or log line), and it is the last batch consumed.
C4_NonFiniteLossExits ==
    /\ ~loss_finite => pc \in {"check", "exited"}
    /\ pc = "exited" =>
        /\ exit_code = 1
        /\ ~loss_finite
        /\ touched = {}
        /\ it = Cur
        /\ it \notin updated_at
        /\ it \notin eval_at
        /\ it \notin metric_logger
        /\ grads = it % args.accum_iter
        /\ \A k \in DOMAIN log_file : log_file[k].iteration # it
        /\ ckpt_file.state = "complete" => ckpt_file.iteration # it

C4_Witness ==
    /\ pc = "exited"
    /\ exit_code = 1
    /\ args.save_freq = 2
    /\ it = 4
    /\ Len(log_file) = 1
    /\ grads > 0

\* C5: resuming from a checkpoint saved at iteration i restores the optimizer
\* and the loss scaler, and the loop goes on from the saved iteration: every
\* batch of the resumed process has an iteration number above i.
C5_ResumeContinuesIteration ==
    resumed_from.state = "complete" =>
        /\ updated_at = {} =>
            /\ optimizer = resumed_from.optimizer
            /\ loss_scaler = resumed_from.scaler
        /\ pc \notin {"loop", "done"} => it > resumed_from.iteration

\* C7: a run of N batches that ends normally has made N \div accum_iter
\* optimizer steps, has entered the evaluation phase at exactly the multiples
\* of save_freq in 1..N-1, and has one log line per phase, the k-th being that
\* of iteration k * save_freq at all times (lines are added, never changed).
C7_EndToEndCounts ==
    /\ \A k \in DOMAIN log_file : log_file[k].iteration = k * args.save_freq
    /\ pc = "done" =>
        /\ Cardinality(updated_at) = enum_count \div args.accum_iter
        /\ eval_at = {i \in 1..(enum_count - 1) : i % args.save_freq = 0}
        /\ Len(log_file) = Cardinality(eval_at)
    /\ (pc = "done" /\ args = Scenario /\ enum_count = 25) =>
        /\ Cardinality(updated_at) = 5
        /\ eval_at = {10, 20}
        /\ Len(log_file) = 2

C7_Witness ==
    /\ pc = "done"
    /\ args = Scenario
    /\ enum_count = 25
    /\ Cardinality(updated_at) = 5
    /\ eval_at = {10, 20}
    /\ Len(log_file) = 2

\* C8: at every point of a save, a crash part-way included, the canonical
\* checkpoint path holds nothing, the whole previous checkpoint or the whole
\* new one, never a half-written file.
C8_AtomicSave ==
    /\ ckpt_file.state \in {"absent", "complete"}
    /\ pc \in {"save_open", "save_write", "save_finalize", "crashed"}
        => ckpt_file \in {ckpt_before, save_dict}
    /\ pc = "setbest" => ckpt_file = save_dict

\* a crash while the temporary file is half written, the previous checkpoint
\* still whole at the canonical path
C8_Witness ==
    /\ pc = "crashed"
    /\ tmp_file = PartialFile
    /\ ckpt_file.state = "complete"
    /\ ckpt_file = ckpt_before
    /\ ckpt_file # save_dict

\* C9 as stated: when evaluate has returned, the model is in training mode.
C9_EvaluateRestoresTrainMode ==
    pc = "compare" => mode = "train"

\* C9, amended: evaluate returns with the model in evaluation mode; the
\* training loop puts it back in training mode at the end of the evaluation
\* phase, so every batch is processed in training mode.
C9_LoopRestoresTrainMode ==
    /\ pc \in AfterEvaluate => mode = "eval"
    /\ pc \notin AfterEvaluate => mode = "train"

C9_Witness ==
    /\ pc = "check"
    /\ mode = "train"
    /\ Cardinality(eval_at) = 2
    /\ it - 1 \in eval_at


RECURSIVE SumSizes(_, _)
\* the samples in the first n batches of s
SumSizes(s, n) == IF n = 0 THEN 0 ELSE SumSizes(s, n - 1) + s[n].bsize

RECURSIVE SumWeighted(_, _, _)
\* the sum of value * batch size over the first n batches of s
SumWeighted(s, n, name) ==
    IF n = 0 THEN 0 ELSE SumWeighted(s, n - 1, name) + s[n][name] * s[n].bsize

\* total / count equals the batch-size-weighted mean with numerator weighted
IsWeightedMean(avg, weighted) ==
    /\ avg.count > 0
    /\ avg.total * SumSizes(val_loader, Len(val_loader)) = weighted * avg.count

\* C10: evaluate returns loss, acc1 and acc5 each as the batch-size-weighted
\* mean over the validation batches: sum of value * batch size over the sum of
\* the batch sizes.
C10_WeightedMeans ==
    ev_pc = "returned" =>
        /\ IsWeightedMean(ev_result.loss,
                          SumWeighted(val_loader, Len(val_loader), "loss"))
        /\ IsWeightedMean(ev_result.acc1,
                          SumWeighted(val_loader, Len(val_loader), "acc1"))
        /\ IsWeightedMean(ev_result.acc5,
                          SumWeighted(val_loader, Len(val_loader), "acc5"))

\* the accuracies alone are the batch-size-weighted means
C10_AccuraciesWeighted ==
    ev_pc = "returned" =>
        /\ IsWeightedMean(ev_result.acc1,
                          SumWeighted(val_loader, Len(val_loader), "acc1"))
        /\ IsWeightedMean(ev_result.acc5,
                          SumWeighted(val_loader, Len(val_loader), "acc5"))


\* C6: in a multi-process run only rank zero ever writes the checkpoint file
\* or the log file, whatever the number of processes and the interleaving.
C6_OnlyRankZeroWrites ==
    /\ \A w \in file_writers : w[2] = 0
    /\ \A k \in DOMAIN shared_log : shared_log[k].writer = 0
    /\ shared_ckpt.state = "complete" => shared_ckpt.writer = 0

\* a second process has been through the save and log steps of an evaluation
\* event, and rank zero has written both files
C6_Witness ==
    /\ world_size >= 2
    /\ rank_pc[1] = "train"
    /\ rank_best[1].total > 0
    /\ rank_it[1] > args.save_freq
    /\ file_writers = {<<"checkpoint", 0>>, <<"log", 0>>}

\* the positions of a rank between evaluate's return and the end of the phase
DAfterEvaluate == {"compare", "save", "log_wait", "log"}

\* C11: in a multi-process run the accuracy compared with the best score is the
\* synchronized one: all processes hold the same test_stats after evaluate,
\* take the same save / no-save decision, and hold equal best scores once they
\* are past the comparison and the save.
C11_ConsistentDecisions ==
    \A r \in Ranks : \A q \in Ranks :
        /\ (rank_pc[r] \in DAfterEvaluate /\ rank_pc[q] \in DAfterEvaluate)
            => rank_stats[r] = rank_stats[q]
        /\ (rank_pc[r] \notin {"compare", "save"} /\ rank_pc[q] \notin {"compare", "save"})
            => rank_best[r] = rank_best[q]
        /\ (rank_pc[r] = "save" /\ rank_pc[q] \in {"log_wait", "log"})
            => rank_best[q] = rank_stats[q]

\* two processes whose local accuracies differ have both saved on the same
\* synchronized value
C11_Witness ==
    /\ world_size >= 2
    /\ rank_meter[0].total # rank_meter[1].total
    /\ rank_pc[0] = "log"
    /\ rank_pc[1] = "log"
    /\ rank_best[0].total > 0
    /\ rank_best[0] = rank_best[1]

\* C12 as stated: no process other than rank zero consumes a validation batch.
C12_OnlyRankZeroReadsValidation ==
    \A r \in Ranks : r # 0 => rank_meter[r].count = 0

\* C12, amended: every process runs evaluate at an evaluation event and
\* consumes the validation stream itself; the synchronized averages are sums
\* over all processes' passes.
C12_EveryRankReadsValidation ==
    \A r \in Ranks :
        /\ rank_pc[r] \in DAfterEvaluate \cup {"eval_wait"} => rank_meter[r].count > 0
        /\ rank_pc[r] \in DAfterEvaluate => rank_stats[r].count = world_size

C12_Witness ==
    /\ world_size >= 2
    /\ rank_pc[1] = "compare"
    /\ rank_meter[1].count > 0
    /\ rank_stats[1].count = world_size

\* the positions inside the loop body
InBody ==
    {"check", "scale", "zero", "metric", "evalcheck", "evaluate", "endbody"}
        \cup AfterEvaluate

\* C13: in both scripts the k-th consumed batch (k = 0, 1, ...) is processed
\* with it = k: the loop variable is the enumerate index throughout the body,
\* the evaluation phase included; the two-stage script's own it += 1 at the end
\* of the body is overwritten by the next enumerate index.
C13_IterationCountsBatches ==
    /\ pc \in InBody \cup {"exited"} => it = enum_count - 1
    /\ (pc = "loop" /\ script = "noncached") => it = enum_count
    /\ (pc = "loop" /\ script = "cached" /\ enum_count > 0) => it = enum_count - 1
    /\ enum_count = 0 => it = 0

\* the two-stage script at the batch after an evaluation phase
C13_Witness ==
    /\ script = "noncached"
    /\ pc = "check"
    /\ enum_count = 4
    /\ it = 3
    /\ 2 \in eval_at

\* the first iteration of the logging interval that the k-th evaluation event closes
IntervalStart(k) == IF k = 1 THEN 0 ELSE (k - 1) * args.save_freq + 1

\* C14: the training window is reset at every evaluation event: the train
\* averages of the line written at iteration it are over exactly the losses
\* recorded after the previous evaluation event, up to and including it.
C14_WindowPerInterval ==
    /\ \A k \in DOMAIN log_file :
        log_file[k].window = IntervalStart(k)..(k * args.save_freq)
    /\ pc \in {"trainmode", "endbody"} /\ Cur \in eval_at => metric_logger = {}
    /\ \A i \in metric_logger : \A e \in eval_at : (e < i \/ e = Cur)

\* the second line of a log: its window starts after the first event
C14_Witness ==
    /\ Len(log_file) = 2
    /\ args.save_freq = 3
    /\ log_file[1].window = {0, 1, 2, 3}
    /\ log_file[2].window = {4, 5, 6}
    /\ pc = "reset"

\* C15: an invocation of evaluate consumes every batch of the finite validation
\* stream exactly once and returns (it is never stuck before its return), and
\* the training state is the same at its return as at its call: parameters,
\* gradient buffers, optimizer and scaler state, iteration and best score.
C15_EvaluateFrame ==
    /\ ev_pos <= Len(val_loader)
    /\ ev_pc \in {"return", "returned"} =>
        /\ ev_pos = Len(val_loader)
        /\ ev_meters.loss.count = Len(val_loader)
        /\ ev_meters.acc1.count = SumSizes(val_loader, Len(val_loader))
        /\ ev_meters.acc5.count = SumSizes(val_loader, Len(val_loader))
    /\ ev_pc \in {"enter", "batch", "return"} => ENABLED NextEval
    /\ ev_pc # "idle" =>
        /\ params = 0 /\ grads = 0 /\ optimizer = 0 /\ loss_scaler = 0
        /\ it = 0 /\ enum_count = 0 /\ best_eval_acc1 = 0

C15_Witness ==
    /\ ev_pc = "returned"
    /\ Len(val_loader) = 2
    /\ ev_pos = 2
    /\ val_loader[2].bsize < val_loader[1].bsize
    /\ ev_result.acc1.count = 3
    /\ params = 0

\* C16: in the two-stage script the encoder is frozen. Whatever training
\* steps, evaluation phases and checkpoint writes have run, the encoder's
\* weights are the loaded ones, the classifier alone has taken every optimizer
\* step, and a checkpoint bundle holds the classifier's weights and no encoder
\* field.
C16_EncoderFrozen ==
    script = "noncached" =>
        /\ encoder = 0
        /\ params = Cardinality(updated_at)
        /\ optimizer = params
        /\ save_dict.state = "complete" =>
            /\ "encoder" \notin DOMAIN save_dict
            /\ save_dict.model <= params
        /\ ckpt_file.state = "complete" =>
            /\ "encoder" \notin DOMAIN ckpt_file
            /\ ckpt_file.model = (ckpt_file.iteration + 1) \div args.accum_iter

C16_Witness ==
    /\ script = "noncached"
    /\ pc = "setbest"
    /\ ckpt_file.state = "complete"
    /\ ckpt_file.model >= 2
    /\ params = ckpt_file.model
    /\ eval_at # {}
    /\ encoder = 0

\* ------------------------------------------------- the loss of a participant
\* the steps a process takes on its own, between two collectives
RankStep(r) ==
    \/ DForward(r)
    \/ DEvaluate(r)
    \/ DCompare(r)
    \/ DSave(r)
    \/ DWriteLog(r)

\* the collectives: each completes once every process has reached it
Collective ==
    \/ DBackwardDone
    \/ DEvalSyncDone
    \/ DLogSyncDone

\* every process is an operating-system process of its own and keeps running
\* while it can; a collective that every process has reached completes
FairDist ==
    /\ \A r \in 0..(MaxProcs - 1) : WF_vars(r \in Ranks /\ RankStep(r))
    /\ WF_vars(Collective)

\* the processes of one distributed run, each of them scheduled fairly
SpecDistFair == InitDist /\ [][NextDist]_vars /\ FairDist

\* process r has left main: by sys.exit(1), or with its batches used up
Terminated(r) ==
    \/ rank_pc[r] = "exited"
    \/ rank_pc[r] = "train" /\ rank_it[r] >= args.max_batches

\* process r waits inside a collective
Blocked(r) == rank_pc[r] \in {"backward_wait", "eval_wait", "log_wait"}

\* C17: the loss of one participant is fatal to the whole run. Once a
\* process has terminated on a non-finite loss, every other process
\* eventually terminates too: none stays blocked in a collective for ever.
C17_LossOfOneIsFatalToAll ==
    (\E r \in Ranks : rank_pc[r] = "exited")
        ~> (\A r \in Ranks : Terminated(r))

\* the positions of a training step: the batch is about to be drawn and run
\* through the model ("loop"), or its loss is being checked, scaled and
\* backpropagated, stepped on and recorded
TrainingStep == {"loop", "check", "scale", "zero", "metric"}

\* C18: the forward pass of every training step runs with the trainable model
\* in training mode. The model is in training mode before the first batch, and
\* a body that ran the evaluation phase ends with the model back in training
\* mode, before the next batch is drawn.
C18_ForwardInTrainMode ==
    /\ pc \in TrainingStep => mode = "train"
    /\ (pc = "endbody" /\ it \in eval_at) => mode = "train"
    /\ enum_count = 0 => mode = "train"

C18_Witness ==
    /\ pc = "scale"
    /\ loss_finite
    /\ (it - 1) \in eval_at
    /\ script = "noncached"
    /\ mode = "train"

\* the evaluation/checkpoint phase, from the call of evaluate to model.train()
EvalPhase == {"evaluate"} \cup AfterEvaluate

\* C19: the evaluation/checkpoint phase at iteration it runs after batch it
\* has been processed, with it + 1 batches consumed. When accum_iter > 1 and
\* save_freq is a multiple of accum_iter, every phase falls on a batch that is
\* not a boundary, (it + 1) % accum_iter = 1: one batch of gradient is
\* accumulated and not applied, and a checkpoint taken there holds the weights
\* without it and has no gradient field.
C19_EvalOnNonBoundary ==
    /\ pc \in EvalPhase =>
        /\ enum_count = it + 1
        /\ it \in eval_at
    /\ (/\ args.accum_iter > 1
        /\ args.save_freq % args.accum_iter = 0
        /\ pc \in EvalPhase) =>
            /\ (it + 1) % args.accum_iter = 1
            /\ ~UpdateGrad(it, args.accum_iter)
            /\ it \notin updated_at
            /\ grads = 1
            /\ params = it \div args.accum_iter
    /\ (/\ args.accum_iter > 1
        /\ args.save_freq % args.accum_iter = 0
        /\ ckpt_file.state = "complete") =>
            /\ (ckpt_file.iteration + 1) % args.accum_iter = 1
            /\ ckpt_file.model = ckpt_file.iteration \div args.accum_iter
            /\ DOMAIN ckpt_file =
                   {"state", "model", "optimizer", "args", "iteration", "scaler"}
            /\ ckpt_file.args = args

C19_Witness ==
    /\ args.accum_iter = 2
    /\ args.save_freq = 4
    /\ pc = "setbest"
    /\ it = 4
    /\ grads = 1
    /\ ckpt_file.state = "complete"
    /\ ckpt_file.iteration = 4
    /\ ckpt_file.model = 2

\* between evaluate's return and best_eval_acc1 = test_stats['acc1']: the
\* evaluation event's result is not yet in the best score
BestPending ==
    {"compare", "save", "save_open", "save_write", "save_finalize", "setbest"}

\* C20: within one process lifetime the best score starts at 0, never
\* decreases, and once an evaluation event is over it is the maximum of 0 and
\* every top-1 accuracy evaluate has returned. A checkpoint exists exactly when
\* that maximum is above 0, and its stored iteration is the iteration of the
\* evaluation event that first returned it: a run whose accuracies are all 0
\* writes no checkpoint.
C20_BestIsRunningMax ==
    /\ best_eval_acc1 >= best_before
    /\ best_before >= 0
    /\ eval_at = {} => (best_eval_acc1 = 0 /\ ckpt_file.state = "absent")
    /\ pc \notin BestPending =>
        /\ best_eval_acc1 = max_seen
        /\ max_seen = 0 => ckpt_file.state = "absent"
        /\ max_seen > 0 =>
            /\ ckpt_file.state = "complete"
            /\ ckpt_file.iteration = first_max_at
            /\ first_max_at \in eval_at
    /\ pc \in BestPending =>
        /\ best_eval_acc1 = best_before
        /\ max_seen = IF test_stats.acc1 > best_before
                      THEN test_stats.acc1 ELSE best_before

C20_Witness ==
    /\ pc = "log"
    /\ Cardinality(eval_at) >= 3
    /\ test_stats.acc1 = max_seen
    /\ best_eval_acc1 = 2
    /\ first_max_at < it
    /\ first_max_at # args.save_freq
    /\ ckpt_file.iteration = first_max_at

\* C21: the best score is not in the checkpoint bundle and is 0 again on every
\* start of the process. So after a resume the first evaluation event whose
\* top-1 accuracy is above 0 overwrites the checkpoint file, whatever accuracy
\* the overwritten checkpoint was saved at, a higher one included.
C21_ResumeForgetsBest ==
    /\ ckpt_file.state = "complete" =>
        /\ DOMAIN ckpt_file =
               {"state", "model", "optimizer", "args", "iteration", "scaler"}
        /\ ckpt_file.args = args
    /\ eval_at = {} => best_eval_acc1 = 0
    /\ restarts > 0 =>
        /\ resumed_from.state = "complete"
        /\ resumed_acc1 > 0
        /\ max_seen = 0 => ckpt_acc1 = resumed_acc1
        /\ (max_seen > 0 /\ pc \notin BestPending \cup {"crashed"}) =>
            /\ ckpt_acc1 = max_seen
            /\ ckpt_file.iteration = first_max_at
            /\ best_eval_acc1 = max_seen

C21_Witness ==
    /\ restarts = 1
    /\ pc = "log"
    /\ resumed_acc1 = 2
    /\ Cardinality(eval_at) = 1
    /\ test_stats.acc1 = 1
    /\ ckpt_acc1 = 1
    /\ ckpt_file.iteration = it

====
